---- MODULE Spec2Model ----
(***************************************************************************)
(* Model of backend/app.py: the Flask application factory create_app, the  *)
(* database initialisation _init_db, the request routing of the rules the  *)
(* factory registers, and the handlers serve_upload, serve_cert, health,   *)
(* spa_root and spa_catch_all.                                             *)
(*                                                                         *)
(* Strings whose content the code inspects are sequences: a path is the    *)
(* sequence of its "/"-separated segments (an absolute path starts with    *)
(* the segment "/"), a connection URI is the sequence of its "/"-separated *)
(* pieces, the CORS, PORT and FLASK_DEBUG settings are sequences of        *)
(* characters.                                                             *)
(***************************************************************************)
EXTENDS Integers, Sequences, FiniteSets, TLC

VARIABLES
    env,            \* the process environment: name -> [set, val]
    fs,             \* the filesystem: path -> "none" | "file" | "dir"
    phase,          \* "boot" | "serving" | "running" | "crashed"
    startupError,   \* the exception that ended startup, "" when none
    config,         \* app.config
    cors,           \* the origins handed to CORS(app, ...)
    db,             \* (app.db_client, app.db)
    routes,         \* the URL map, in registration order
    listen,         \* the arguments of app.run
    req,            \* the request being dispatched
    ping,           \* the outcome of the liveness round-trip of this request
    resp            \* the response of the request being dispatched

vars == <<env, fs, phase, startupError, config, cors, db, routes, listen, req, ping, resp>>

(***************************************************************************)
(* Bounds of the model.                                                    *)
(***************************************************************************)
MaxPathLen == 3     \* segments of a request path
MaxCorsLen == 3     \* characters of a CORS_ORIGINS value

RECURSIVE SeqsUpTo(_, _)
SeqsUpTo(S, n) ==
    IF n = 0 THEN {<<>>}
    ELSE LET shorter == SeqsUpTo(S, n - 1)
         IN  shorter \cup {Append(s, x) : s \in {t \in shorter : Len(t) = n - 1}, x \in S}

IsPrefix(p, q) == Len(p) <= Len(q) /\ SubSeq(q, 1, Len(p)) = p

(***************************************************************************)
(* The environment and os.getenv.                                          *)
(***************************************************************************)
EnvNames == {"MONGO_URI", "MONGO_DB", "JWT_SECRET_KEY", "UPLOAD_DIR", "CERT_DIR",
             "FRONTEND_DIR", "CORS_ORIGINS", "PORT", "FLASK_DEBUG"}

EnvUnset == [set |-> FALSE, val |-> <<>>]
EnvSet(v) == [set |-> TRUE, val |-> v]

\* os.getenv(name, default): the default only when the variable is not set.
Getenv(e, name, default) == IF e[name].set THEN e[name].val ELSE default

Cwd == <<"/", "srv">>

DefaultMongoUri == <<"mongodb:", "", "localhost:27017", "verdantia">>
DefaultJwtSecret == <<"dev-secret-change-me">>
DefaultUploadDir == <<"uploads">>
DefaultCertDir == <<"certs">>
DefaultFrontendDir == Cwd \o <<"frontend", "dist">>
DefaultCorsOrigins == <<"*">>
DefaultPort == 5000
DefaultFlaskDebug == <<"f", "a", "l", "s", "e">>
DefaultDbName == "verdantia"

(***************************************************************************)
(* The filesystem: os.path.join, os.path.isfile, os.path.exists,           *)
(* os.makedirs.                                                            *)
(***************************************************************************)
Root == <<"/">>
NoEnt == <<>>

FrontendParent == Cwd \o <<"frontend">>
AlwaysDirs == {Root, Cwd, FrontendParent, DefaultFrontendDir}

FsPaths == {Cwd \o <<"uploads">>, Cwd \o <<"uploads", "f">>,
            Cwd \o <<"certs">>, Cwd \o <<"certs", "f">>,
            Cwd \o <<"data">>,
            DefaultFrontendDir \o <<"index.html">>, DefaultFrontendDir \o <<"f">>,
            FrontendParent \o <<"f">>, Cwd \o <<"f">>}

Kind(f, p) ==
    IF p \in AlwaysDirs THEN "dir"
    ELSE IF p \in DOMAIN f THEN f[p] ELSE "none"

Parent(p) == IF Len(p) <= 1 THEN Root ELSE SubSeq(p, 1, Len(p) - 1)

\* every entry lies in a directory
WellFormedFs(f) == \A p \in DOMAIN f : f[p] # "none" => Kind(f, Parent(p)) = "dir"

IsAbs(p) == p # <<>> /\ p[1] = "/"

\* os.path.join(a, b)
PathJoin(a, b) == IF IsAbs(b) THEN b ELSE a \o b

\* the path the operating system is asked for: relative paths start at the
\* working directory
AbsPath(p) == IF IsAbs(p) THEN p ELSE Cwd \o p

\* the operating system's walk of a path: every component but the last must
\* be a directory, ".." steps to the parent
RECURSIVE Walk(_, _, _)
Walk(f, cur, rest) ==
    IF rest = <<>> THEN cur
    ELSE IF Kind(f, cur) # "dir" THEN NoEnt
    ELSE IF Head(rest) = ".." THEN Walk(f, Parent(cur), Tail(rest))
    ELSE Walk(f, Append(cur, Head(rest)), Tail(rest))

\* the entry a path names, NoEnt when the walk fails or the path is ""
Resolve(f, p) == IF p = <<>> THEN NoEnt ELSE Walk(f, Root, Tail(AbsPath(p)))

IsFile(f, p) == Resolve(f, p) # NoEnt /\ Kind(f, Resolve(f, p)) = "file"
Exists(f, p) == Resolve(f, p) # NoEnt /\ Kind(f, Resolve(f, p)) # "none"

\* os.makedirs(p, exist_ok=True) for a directory one level below an existing
\* one: "" is FileNotFoundError, a regular file in the way is FileExistsError
MakedirsError(f, p) ==
    IF p = <<>> THEN "FileNotFoundError"
    ELSE IF Kind(f, AbsPath(p)) = "file" THEN "FileExistsError"
    ELSE ""

Makedirs(f, p) ==
    IF MakedirsError(f, p) # "" \/ AbsPath(p) \notin DOMAIN f THEN f
    ELSE [f EXCEPT ![AbsPath(p)] = "dir"]

(***************************************************************************)
(* MongoClient(uri), client[name], client.get_default_database().          *)
(***************************************************************************)
MongoSchemes == {"mongodb:", "mongodb+srv:"}

\* MongoClient(uri): the database name the URI carries, "" when it carries
\* none; not ok when the URI is rejected (InvalidURI, ConfigurationError)
ParseUri(u) ==
    IF Len(u) >= 3 /\ u[1] \in MongoSchemes /\ u[2] = "" /\ u[3] # ""
    THEN [ok |-> TRUE, database |-> IF Len(u) >= 4 THEN u[4] ELSE ""]
    ELSE IF Len(u) = 1 /\ u[1] # "" /\ u[1] \notin MongoSchemes
    THEN [ok |-> TRUE, database |-> ""]
    ELSE [ok |-> FALSE, database |-> ""]

NoDb == [client |-> FALSE, name |-> "", error |-> ""]

\* client.get_default_database(): raises ConfigurationError when the URI
\* carries no database name; it never returns None
GetDefaultDatabase(parsed) ==
    IF parsed.database # ""
    THEN [client |-> TRUE, name |-> parsed.database, error |-> ""]
    ELSE [client |-> FALSE, name |-> "", error |-> "ConfigurationError"]

\* _init_db(): the handle, or the exception it raises in error
InitDb(e) ==
    LET mongo_uri == Getenv(e, "MONGO_URI", DefaultMongoUri)
        mongo_db  == Getenv(e, "MONGO_DB", <<>>)
        parsed    == ParseUri(mongo_uri)
    IN  IF ~parsed.ok THEN [client |-> FALSE, name |-> "", error |-> "InvalidURI"]
        ELSE IF mongo_db # <<>>
        THEN [client |-> TRUE, name |-> mongo_db[1], error |-> ""]
        ELSE LET d == GetDefaultDatabase(parsed)
             IN  IF d = NoDb
                 THEN [client |-> TRUE, name |-> DefaultDbName, error |-> ""]
                 ELSE d

(***************************************************************************)
(* The CORS origins, the listen port and the debug flag.                   *)
(***************************************************************************)
\* the index of the first "," of s, 0 when it has none
RECURSIVE FirstComma(_, _)
FirstComma(s, i) ==
    IF i > Len(s) THEN 0
    ELSE IF s[i] = "," THEN i
    ELSE FirstComma(s, i + 1)

\* s.split(",")
RECURSIVE Split(_)
Split(s) ==
    LET i == FirstComma(s, 1)
    IN  IF i = 0 THEN <<s>>
        ELSE <<SubSeq(s, 1, i - 1)>> \o Split(SubSeq(s, i + 1, Len(s)))

NoCors == [wildcard |-> FALSE, origins |-> <<>>]

\* cors_origins.split(",") if cors_origins != "*" else "*"
CorsOrigins(s) ==
    IF s = <<"*">> THEN [wildcard |-> TRUE, origins |-> <<>>]
    ELSE [wildcard |-> FALSE, origins |-> Split(s)]

Digits == <<"0", "1", "2", "3", "4", "5", "6", "7", "8", "9">>
IsDigit(c) == \E i \in 1..Len(Digits) : Digits[i] = c
DigitValue(c) == (CHOOSE i \in 1..Len(Digits) : Digits[i] = c) - 1

RECURSIVE DecimalValue(_)
DecimalValue(s) ==
    IF s = <<>> THEN 0
    ELSE DecimalValue(SubSeq(s, 1, Len(s) - 1)) * 10 + DigitValue(s[Len(s)])

\* int(s) for a string of the characters the model draws: ValueError unless
\* it is a non-empty string of digits
ParseInt(s) ==
    IF s # <<>> /\ \A i \in 1..Len(s) : IsDigit(s[i])
    THEN [ok |-> TRUE, value |-> DecimalValue(s)]
    ELSE [ok |-> FALSE, value |-> 0]

LowerChar(c) ==
    CASE c = "T" -> "t"
      [] c = "R" -> "r"
      [] c = "U" -> "u"
      [] c = "E" -> "e"
      [] OTHER -> c

\* s.lower()
Lower(s) == [i \in 1..Len(s) |-> LowerChar(s[i])]

NoListen == [started |-> FALSE, port |-> 0, debug |-> FALSE]

(***************************************************************************)
(* create_app(): configuration, CORS, directories, database, URL map.      *)
(***************************************************************************)
ConfigKeys == {"JWT_SECRET_KEY", "UPLOAD_DIR", "CERT_DIR", "FRONTEND_DIR"}

NoConfig == [k \in ConfigKeys |-> <<>>]

ConfigDefault(k) ==
    CASE k = "JWT_SECRET_KEY" -> DefaultJwtSecret
      [] k = "UPLOAD_DIR" -> DefaultUploadDir
      [] k = "CERT_DIR" -> DefaultCertDir
      [] k = "FRONTEND_DIR" -> DefaultFrontendDir

AppConfig(e) == [k \in ConfigKeys |-> Getenv(e, k, ConfigDefault(k))]

Methods == {"GET", "POST"}

Rule(static, tail, endpoint, methods) ==
    [static |-> static, tail |-> tail, endpoint |-> endpoint, methods |-> methods]

\* the rules of the four blueprints, each under its url_prefix
AuthBpRules == <<Rule(<<"login">>, FALSE, "auth", Methods)>>
RecoBpRules == <<Rule(<<"health">>, FALSE, "recommendation", Methods)>>
CompBpRules == <<Rule(<<"certs">>, FALSE, "compliance", Methods)>>
GameBpRules == <<Rule(<<"uploads">>, FALSE, "gamification", Methods)>>

FeatureEndpoints == {"auth", "recommendation", "compliance", "gamification"}

\* app.register_blueprint(bp, url_prefix=prefix)
RegisterBlueprint(rules, prefix) ==
    [i \in 1..Len(rules) |-> [rules[i] EXCEPT !.static = prefix \o @]]

\* the URL map after create_app, in registration order
UrlMap ==
    RegisterBlueprint(AuthBpRules, <<"api", "auth">>)
    \o RegisterBlueprint(RecoBpRules, <<"api">>)
    \o RegisterBlueprint(CompBpRules, <<"api">>)
    \o RegisterBlueprint(GameBpRules, <<"api">>)
    \o <<Rule(<<"uploads">>, TRUE, "serve_upload", {"GET"}),
         Rule(<<"certs">>, TRUE, "serve_cert", {"GET"}),
         Rule(<<"health">>, FALSE, "health", {"GET"}),
         Rule(<<>>, FALSE, "spa_root", {"GET"}),
         Rule(<<>>, TRUE, "spa_catch_all", {"GET"})>>

NoReq == [method |-> "", path |-> <<>>]
NoPing == [cls |-> "", msg |-> ""]
NoResp == [handler |-> "", status |-> 0, kind |-> "", file |-> <<>>, body |-> <<>>]

\* the first exception create_app raises, "" when it returns
CreateAppError(e, f) ==
    LET c == AppConfig(e)
    IN  IF MakedirsError(f, c["UPLOAD_DIR"]) # "" THEN MakedirsError(f, c["UPLOAD_DIR"])
        ELSE IF MakedirsError(Makedirs(f, c["UPLOAD_DIR"]), c["CERT_DIR"]) # ""
        THEN MakedirsError(Makedirs(f, c["UPLOAD_DIR"]), c["CERT_DIR"])
        ELSE InitDb(e).error

CreateApp ==
    /\ phase = "boot"
    /\ LET c   == AppConfig(env)
           f1  == Makedirs(fs, c["UPLOAD_DIR"])
           f2  == IF MakedirsError(fs, c["UPLOAD_DIR"]) = "" THEN Makedirs(f1, c["CERT_DIR"]) ELSE f1
           err == CreateAppError(env, fs)
       IN  /\ fs' = f2
           /\ startupError' = err
           /\ IF err = ""
              THEN /\ phase' = "serving"
                   /\ config' = c
                   /\ cors' = CorsOrigins(Getenv(env, "CORS_ORIGINS", DefaultCorsOrigins))
                   /\ db' = InitDb(env)
                   /\ routes' = UrlMap
              ELSE /\ phase' = "crashed"
                   /\ UNCHANGED <<config, cors, db, routes>>
    /\ UNCHANGED <<env, listen, req, ping, resp>>

\* the __main__ block: app.run(host, port, debug)
Main ==
    /\ phase = "serving"
    /\ req = NoReq
    /\ LET port  == IF env["PORT"].set THEN ParseInt(env["PORT"].val)
                    ELSE [ok |-> TRUE, value |-> DefaultPort]
           debug == Lower(Getenv(env, "FLASK_DEBUG", DefaultFlaskDebug)) = <<"t", "r", "u", "e">>
       IN  IF port.ok
           THEN /\ phase' = "running"
                /\ listen' = [started |-> TRUE, port |-> port.value, debug |-> debug]
                /\ UNCHANGED startupError
           ELSE /\ phase' = "crashed"
                /\ startupError' = "ValueError"
                /\ UNCHANGED listen
    /\ UNCHANGED <<env, fs, config, cors, db, routes, req, ping, resp>>

(***************************************************************************)
(* Startup under every combination of settings.                            *)
(***************************************************************************)
UriChoices == {EnvUnset, EnvSet(<<>>),
               EnvSet(<<"mongodb:", "", "localhost:27017", "inventory">>),
               EnvSet(<<"mongodb:", "", "localhost:27017">>),
               EnvSet(<<"mongodb:", "", "localhost:27017", "">>),
               EnvSet(<<"http:", "", "localhost", "inventory">>)}
DbNameChoices == {EnvUnset, EnvSet(<<>>), EnvSet(<<"override">>)}
SecretChoices == {EnvUnset, EnvSet(<<>>), EnvSet(<<"s3cret">>)}
DirChoices == {EnvUnset, EnvSet(<<>>), EnvSet(<<"data">>)}
CorsChoices == {EnvUnset, EnvSet(<<>>), EnvSet(<<"a">>)}
PortChoices == {EnvUnset, EnvSet(<<>>), EnvSet(<<"8", "0">>), EnvSet(<<"x">>)}
DebugChoices == {EnvUnset, EnvSet(<<>>), EnvSet(<<"t", "r", "u", "e">>),
                 EnvSet(<<"T", "r", "u", "e">>), EnvSet(<<"1">>)}

EmptyFs == [p \in FsPaths |-> "none"]

NotStarted ==
    /\ phase = "boot"
    /\ startupError = ""
    /\ config = NoConfig
    /\ cors = NoCors
    /\ db = NoDb
    /\ routes = <<>>
    /\ listen = NoListen
    /\ req = NoReq
    /\ ping = NoPing
    /\ resp = NoResp

InitBoot ==
    /\ \E u \in UriChoices, n \in DbNameChoices, s \in SecretChoices,
          ud \in DirChoices, cd \in DirChoices, fd \in DirChoices,
          co \in CorsChoices, po \in PortChoices, de \in DebugChoices :
          env = [MONGO_URI |-> u, MONGO_DB |-> n, JWT_SECRET_KEY |-> s,
                 UPLOAD_DIR |-> ud, CERT_DIR |-> cd, FRONTEND_DIR |-> fd,
                 CORS_ORIGINS |-> co, PORT |-> po, FLASK_DEBUG |-> de]
    /\ fs = EmptyFs
    /\ NotStarted

NextBoot == CreateApp \/ Main

SpecBoot == InitBoot /\ [][NextBoot]_vars

(***************************************************************************)
(* Startup under every CORS_ORIGINS value of bounded length.               *)
(***************************************************************************)
CorsChars == {"a", "b", ",", " ", "*"}

InitCors ==
    /\ \E co \in {EnvUnset} \cup {EnvSet(s) : s \in SeqsUpTo(CorsChars, MaxCorsLen)} :
          env = [n \in EnvNames |-> IF n = "CORS_ORIGINS" THEN co ELSE EnvUnset]
    /\ fs = EmptyFs
    /\ NotStarted

SpecCors == InitCors /\ [][NextBoot]_vars

(***************************************************************************)
(* werkzeug's safe_join and send_from_directory, as flask's                *)
(* send_from_directory calls them.                                         *)
(***************************************************************************)
\* the directory flask resolves a relative directory against
\* (current_app.root_path); the server is started in the module's directory
RootPath == Cwd

Last(s) == s[Len(s)]
Front(s) == SubSeq(s, 1, Len(s) - 1)

\* posixpath.normpath of a relative path: ".." removes the segment before
\* it, and stays when there is none
RECURSIVE Norm(_, _)
Norm(acc, rest) ==
    IF rest = <<>> THEN acc
    ELSE IF Head(rest) = ".."
    THEN IF acc # <<>> /\ Last(acc) # ".."
         THEN Norm(Front(acc), Tail(rest))
         ELSE Norm(Append(acc, ".."), Tail(rest))
    ELSE Norm(Append(acc, Head(rest)), Tail(rest))

NormPath(p) == Norm(<<>>, p)

\* safe_join without its check of the normalised path
SafeJoinUnchecked(directory, path) == [ok |-> TRUE, path |-> directory \o path]

\* safe_join(directory, path): None when the normalised path is ".." or
\* starts with "../"
SafeJoin(directory, path) ==
    LET n == NormPath(path)
    IN  IF n # <<>> /\ n[1] = ".." THEN [ok |-> FALSE, path |-> <<>>]
        ELSE [ok |-> TRUE, path |-> directory \o n]

FileResponse(h, file) ==
    [handler |-> h, status |-> 200, kind |-> "file", file |-> file, body |-> <<>>]
NotFoundResponse(h) ==
    [handler |-> h, status |-> 404, kind |-> "not_found", file |-> <<>>, body |-> <<>>]
JsonResponse(h, status, body) ==
    [handler |-> h, status |-> status, kind |-> "json", file |-> <<>>, body |-> body]
\* an exception leaves the view function
UnhandledResponse(h) ==
    [handler |-> h, status |-> 500, kind |-> "unhandled", file |-> <<>>, body |-> <<>>]

\* send_from_directory(directory, path): NotFound unless safe_join accepts
\* the path and it names a regular file
SendFromDirectory(h, f, directory, path) ==
    LET j == SafeJoin(directory, path)
    IN  IF ~j.ok THEN NotFoundResponse(h)
        ELSE IF ~IsFile(f, PathJoin(RootPath, j.path)) THEN NotFoundResponse(h)
        ELSE FileResponse(h, Resolve(f, PathJoin(RootPath, j.path)))

(***************************************************************************)
(* URL matching.                                                           *)
(***************************************************************************)
\* a rule matches a path: its static segments, then, for a rule ending in
\* <path:...>, at least one more segment
Matches(rule, path) ==
    IF rule.tail THEN Len(path) > Len(rule.static) /\ IsPrefix(rule.static, path)
    ELSE path = rule.static

\* the endpoint werkzeug's matcher picks: static segments are tried before
\* a converter at every position, so among the rules that match the path
\* and the method the one with the longest static prefix wins
Endpoint(rt, r) ==
    LET onPath == {i \in 1..Len(rt) : Matches(rt[i], r.path)}
        cands  == {i \in onPath : r.method \in rt[i].methods}
    IN  IF cands = {}
        THEN IF onPath = {} THEN "not_found" ELSE "method_not_allowed"
        ELSE LET best == CHOOSE i \in cands : \A j \in cands :
                            \/ Len(rt[i].static) > Len(rt[j].static)
                            \/ Len(rt[i].static) = Len(rt[j].static) /\ i <= j
             IN  rt[best].endpoint

\* the value of the <path:...> argument of the rule of an endpoint
PathArg(rt, r, endpoint) ==
    LET i == CHOOSE k \in 1..Len(rt) : rt[k].endpoint = endpoint
    IN  SubSeq(r.path, Len(rt[i].static) + 1, Len(r.path))

(***************************************************************************)
(* The view functions.                                                     *)
(***************************************************************************)
ServeUploadResponse(f, c, filename) ==
    SendFromDirectory("serve_upload", f, c["UPLOAD_DIR"], filename)

\* serve_cert reading the upload directory
ServeCertResponseUploadDir(f, c, filename) ==
    SendFromDirectory("serve_cert", f, c["UPLOAD_DIR"], filename)

ServeCertResponse(f, c, filename) ==
    SendFromDirectory("serve_cert", f, c["CERT_DIR"], filename)

PyMongoErrors == {"ServerSelectionTimeoutError", "AutoReconnect", "OperationFailure"}

\* what app.db.command("ping") does: it returns, or raises an error of the
\* database library (timeout, refused connection, authentication failure),
\* or raises an error of another class
PingOutcomes ==
    {[cls |-> "ok", msg |-> ""],
     [cls |-> "ServerSelectionTimeoutError", msg |-> "timed out"],
     [cls |-> "AutoReconnect", msg |-> "connection refused"],
     [cls |-> "OperationFailure", msg |-> "Authentication failed."],
     [cls |-> "RuntimeError", msg |-> "can't start new thread"]}

\* health without the status of its degraded answer
HealthResponseNoStatus(o) ==
    IF o.cls = "ok"
    THEN JsonResponse("health", 200, <<<<"ok", "true">>, <<"db", "up">>>>)
    ELSE IF o.cls \in PyMongoErrors
    THEN JsonResponse("health", 200,
                      <<<<"ok", "false">>, <<"db", "down">>, <<"error", o.msg>>>>)
    ELSE UnhandledResponse("health")

HealthResponse(o) ==
    IF o.cls = "ok"
    THEN JsonResponse("health", 200, <<<<"ok", "true">>, <<"db", "up">>>>)
    ELSE IF o.cls \in PyMongoErrors
    THEN JsonResponse("health", 500,
                      <<<<"ok", "false">>, <<"db", "down">>, <<"error", o.msg>>>>)
    ELSE UnhandledResponse("health")

ServeSpaIndex(h, f, c) ==
    IF Exists(f, PathJoin(c["FRONTEND_DIR"], <<"index.html">>))
    THEN SendFromDirectory(h, f, c["FRONTEND_DIR"], <<"index.html">>)
    ELSE JsonResponse(h, 501, <<<<"error", "frontend_not_built">>>>)

SpaRootResponse(f, c) == ServeSpaIndex("spa_root", f, c)

SpaCatchAllResponse(f, c, path) ==
    IF IsFile(f, PathJoin(c["FRONTEND_DIR"], path))
    THEN SendFromDirectory("spa_catch_all", f, c["FRONTEND_DIR"], path)
    ELSE ServeSpaIndex("spa_catch_all", f, c)

(***************************************************************************)
(* Requests.                                                               *)
(***************************************************************************)
PathSegs == {"..", "api", "auth", "login", "uploads", "certs", "health", "f"}

Paths == SeqsUpTo(PathSegs, MaxPathLen)

Dispatching(endpoint) ==
    /\ phase = "serving"
    /\ req # NoReq
    /\ resp = NoResp
    /\ Endpoint(routes, req) = endpoint

Frame == UNCHANGED <<env, fs, phase, startupError, config, cors, db, routes, listen, req>>

Receive ==
    /\ phase = "serving"
    /\ req = NoReq
    /\ \E m \in Methods, p \in Paths : req' = [method |-> m, path |-> p]
    /\ UNCHANGED <<env, fs, phase, startupError, config, cors, db, routes, listen, ping, resp>>

\* a rule of a blueprint matched: the feature module answers
Feature ==
    /\ \E e \in FeatureEndpoints :
          /\ Dispatching(e)
          /\ resp' = [handler |-> e, status |-> 0, kind |-> "delegated",
                      file |-> <<>>, body |-> <<>>]
    /\ UNCHANGED ping
    /\ Frame

ServeUpload ==
    /\ Dispatching("serve_upload")
    /\ resp' = ServeUploadResponse(fs, config, PathArg(routes, req, "serve_upload"))
    /\ UNCHANGED ping
    /\ Frame

ServeCert ==
    /\ Dispatching("serve_cert")
    /\ resp' = ServeCertResponse(fs, config, PathArg(routes, req, "serve_cert"))
    /\ UNCHANGED ping
    /\ Frame

\* health dropping the database handle when the ping fails
HealthDropsHandle ==
    /\ Dispatching("health")
    /\ \E o \in PingOutcomes :
          /\ ping' = o
          /\ resp' = HealthResponse(o)
          /\ db' = IF o.cls = "ok" THEN db ELSE NoDb
    /\ UNCHANGED <<env, fs, phase, startupError, config, cors, routes, listen, req>>

Health ==
    /\ Dispatching("health")
    /\ \E o \in PingOutcomes :
          /\ ping' = o
          /\ resp' = HealthResponse(o)
    /\ Frame

SpaRoot ==
    /\ Dispatching("spa_root")
    /\ resp' = SpaRootResponse(fs, config)
    /\ UNCHANGED ping
    /\ Frame

SpaCatchAll ==
    /\ Dispatching("spa_catch_all")
    /\ resp' = SpaCatchAllResponse(fs, config, PathArg(routes, req, "spa_catch_all"))
    /\ UNCHANGED ping
    /\ Frame

\* no rule matches the path and the method: werkzeug's NotFound or
\* MethodNotAllowed
RoutingError ==
    /\ \E e \in {"not_found", "method_not_allowed"} :
          /\ Dispatching(e)
          /\ resp' = IF e = "not_found" THEN NotFoundResponse("router")
                     ELSE [handler |-> "router", status |-> 405,
                           kind |-> "method_not_allowed", file |-> <<>>, body |-> <<>>]
    /\ UNCHANGED ping
    /\ Frame

\* the response is sent and the request context is popped
Complete ==
    /\ phase = "serving"
    /\ resp # NoResp
    /\ req' = NoReq
    /\ ping' = NoPing
    /\ resp' = NoResp
    /\ UNCHANGED <<env, fs, phase, startupError, config, cors, db, routes, listen>>

(***************************************************************************)
(* The server with the default settings over every filesystem.             *)
(***************************************************************************)
FileKinds(p) ==
    IF p \in {Cwd \o <<"uploads">>, Cwd \o <<"certs">>} THEN {"none", "dir"}
    ELSE IF p = Cwd \o <<"data">> THEN {"none"}
    ELSE IF p = DefaultFrontendDir \o <<"index.html">> THEN {"none", "file", "dir"}
    ELSE {"none", "file"}

Init ==
    /\ env = [n \in EnvNames |-> EnvUnset]
    /\ fs \in {f \in [FsPaths -> {"none", "file", "dir"}] :
                  WellFormedFs(f) /\ \A p \in FsPaths : f[p] \in FileKinds(p)}
    /\ NotStarted

Next ==
    \/ CreateApp
    \/ Receive
    \/ Feature
    \/ ServeUpload
    \/ ServeCert
    \/ Health
    \/ SpaRoot
    \/ SpaCatchAll
    \/ RoutingError
    \/ Complete

Spec == Init /\ [][Next]_vars

(***************************************************************************)
(* Properties.                                                             *)
(***************************************************************************)
Started == phase \in {"serving", "running"}

\* a request has been answered and its response not yet sent
Responded == phase = "serving" /\ req # NoReq /\ resp # NoResp

MakedirsErrors == {"FileNotFoundError", "FileExistsError"}

NonEmptySeq(s) == s # <<>>

\* the database name the fallback chain of the documentation selects
ChainDbName(e) ==
    LET parsed == ParseUri(Getenv(e, "MONGO_URI", DefaultMongoUri))
    IN  IF e["MONGO_DB"].set /\ e["MONGO_DB"].val # <<>> THEN e["MONGO_DB"].val[1]
        ELSE IF parsed.database # "" THEN parsed.database
        ELSE DefaultDbName

\* C1: whenever _init_db runs on a well-formed connection URI, it does not
\* raise and the database it returns is named by the explicit name if that
\* is non-empty, else by the name in the URI if it has one, else "verdantia".
C1_InitDbFallbackChain ==
    (/\ phase # "boot"
     /\ startupError \notin MakedirsErrors
     /\ ParseUri(Getenv(env, "MONGO_URI", DefaultMongoUri)).ok)
    => /\ startupError # "ConfigurationError"
       /\ db.client
       /\ db.name = ChainDbName(env)

\* the root directory of the handler that serves files
ServingRoot(h) ==
    CASE h = "serve_upload" -> AbsPath(config["UPLOAD_DIR"])
      [] h = "serve_cert" -> AbsPath(config["CERT_DIR"])
      [] OTHER -> AbsPath(config["FRONTEND_DIR"])

\* C2: every file a file-serving route serves lies strictly inside the root
\* directory of that route, whatever parent-directory segments the requested
\* name holds and whether or not a file exists outside the root.
C2_NoFileOutsideRoot ==
    (Responded /\ resp.kind = "file")
    => /\ resp.handler \in {"serve_upload", "serve_cert", "spa_root", "spa_catch_all"}
       /\ IsPrefix(ServingRoot(resp.handler), resp.file)
       /\ Len(resp.file) > Len(ServingRoot(resp.handler))

\* a request for an upload whose name climbs out of the upload directory to
\* a regular file that exists there has been answered, with not-found
C2_Witness ==
    /\ Responded
    /\ resp.handler = "serve_upload"
    /\ LET full == PathJoin(config["UPLOAD_DIR"], PathArg(routes, req, "serve_upload"))
       IN  /\ IsFile(fs, full)
           /\ ~IsPrefix(ServingRoot("serve_upload"), Resolve(fs, full))
    /\ resp.kind = "not_found"

DatabaseFailures == {"ServerSelectionTimeoutError", "AutoReconnect", "OperationFailure"}

\* C3: GET /health makes the liveness round-trip; when the ping succeeds the
\* answer is 200 {ok:true, db:"up"}, and when it fails with a database
\* failure (timeout, refused connection, authentication failure) the answer
\* is 500 {ok:false, db:"down", error:<non-empty string>}.
C3_HealthUpOrDown ==
    (Responded /\ req = [method |-> "GET", path |-> <<"health">>])
    => /\ resp.handler = "health"
       /\ ping \in PingOutcomes
       /\ ping.cls = "ok" =>
             /\ resp.status = 200
             /\ resp.kind = "json"
             /\ resp.body = <<<<"ok", "true">>, <<"db", "up">>>>
       /\ ping.cls \in DatabaseFailures =>
             /\ resp.status = 500
             /\ resp.kind = "json"
             /\ Len(resp.body) = 3
             /\ resp.body[1] = <<"ok", "false">>
             /\ resp.body[2] = <<"db", "down">>
             /\ resp.body[3][1] = "error"
             /\ resp.body[3][2] # ""

\* a health request whose ping timed out has been answered as degraded
C3_Witness ==
    /\ Responded
    /\ resp.handler = "health"
    /\ ping.cls = "ServerSelectionTimeoutError"
    /\ resp.status = 500

\* C4: whatever the class of the error the liveness round-trip raises, the
\* health request ends in the structured degraded answer (500, ok:false,
\* db:"down") and the error does not leave the health handler.
C4_HealthAnyErrorDegraded ==
    (Responded /\ resp.handler = "health" /\ ping.cls # "ok")
    => /\ resp.kind = "json"
       /\ resp.status = 500
       /\ Len(resp.body) = 3
       /\ resp.body[1] = <<"ok", "false">>
       /\ resp.body[2] = <<"db", "down">>

\* C5: a request whose path starts with a registered feature prefix (/api,
\* /api/auth) is never handled by the upload, certificate, health or SPA
\* handlers, also when no feature module has a rule for the path.
C5_FeaturePrefixNeverFallsThrough ==
    (Responded /\ IsPrefix(<<"api">>, req.path))
    => resp.handler \notin {"serve_upload", "serve_cert", "health", "spa_root", "spa_catch_all"}

\* the directory and the requested name of a request to /uploads/<name> or
\* /certs/<name>
FileRouteDir(r) == IF r.path[1] = "uploads" THEN config["UPLOAD_DIR"] ELSE config["CERT_DIR"]
FileRouteHandler(r) == IF r.path[1] = "uploads" THEN "serve_upload" ELSE "serve_cert"
IsFileRoute(r) == r.method = "GET" /\ Len(r.path) >= 2 /\ r.path[1] \in {"uploads", "certs"}

\* the file a name names inside a directory: the name with its ".." segments
\* resolved must stay in the directory and be a regular file there
NamedInside(f, dir, name) ==
    /\ ~(NormPath(name) # <<>> /\ NormPath(name)[1] = "..")
    /\ Kind(f, AbsPath(dir) \o NormPath(name)) = "file"

IndexPath == PathJoin(config["FRONTEND_DIR"], <<"index.html">>)

\* C7: a GET of / or of a path no feature rule and no utility route matches
\* is answered with the static asset of that path (200) when the path names
\* a regular file of the frontend directory, else with the index document
\* (200) when it is present, else with 501 {error:"frontend_not_built"};
\* never with 404.
C7_SpaAssetIndexOrNotBuilt ==
    (Responded /\ req.method = "GET" /\ resp.handler \in {"spa_root", "spa_catch_all"})
    => /\ resp.status # 404
       /\ IF req.path # <<>> /\ IsFile(fs, PathJoin(config["FRONTEND_DIR"], req.path))
          THEN /\ resp.status = 200
               /\ resp.kind = "file"
               /\ resp.file = Resolve(fs, PathJoin(config["FRONTEND_DIR"], req.path))
          ELSE IF Exists(fs, IndexPath)
          THEN /\ resp.status = 200
               /\ resp.kind = "file"
               /\ resp.file = Resolve(fs, IndexPath)
          ELSE /\ resp.status = 501
               /\ resp.body = <<<<"error", "frontend_not_built">>>>

\* s without its leading and trailing blanks
RECURSIVE TrimLeft(_)
TrimLeft(s) == IF s # <<>> /\ Head(s) = " " THEN TrimLeft(Tail(s)) ELSE s
RECURSIVE TrimRight(_)
TrimRight(s) == IF s # <<>> /\ Last(s) = " " THEN TrimRight(Front(s)) ELSE s
Trim(s) == TrimRight(TrimLeft(s))

\* the origins the documentation describes: the pieces between the commas,
\* trimmed, the empty ones left out
TrimmedOrigins(s) ==
    LET pieces == Split(s)
    IN  SelectSeq([i \in 1..Len(pieces) |-> Trim(pieces[i])], NonEmptySeq)

\* C8: CORS_ORIGINS "*" gives the wildcard policy, and every other value
\* gives the list of its comma-separated origins in order, each trimmed of
\* surrounding blanks, with no empty entry.
C8_CorsOriginsTrimmedNonEmpty ==
    Started =>
        LET raw == Getenv(env, "CORS_ORIGINS", DefaultCorsOrigins)
        IN  IF raw = <<"*">> THEN cors = [wildcard |-> TRUE, origins |-> <<>>]
            ELSE cors = [wildcard |-> FALSE, origins |-> TrimmedOrigins(raw)]

\* a setting of the environment counts as given when it is set and not empty
Given(n) == env[n].set /\ env[n].val # <<>>

\* C9: every setting takes the value of the environment when that is
\* non-empty and its default when the variable is unset or empty, and no
\* unset or empty setting makes startup fail.
C9_EmptySettingTakesDefault ==
    /\ Started =>
          /\ \A k \in ConfigKeys :
                config[k] = IF Given(k) THEN env[k].val ELSE ConfigDefault(k)
          /\ cors = CorsOrigins(IF Given("CORS_ORIGINS") THEN env["CORS_ORIGINS"].val
                                ELSE DefaultCorsOrigins)
    /\ phase = "running" =>
          /\ listen.port = IF Given("PORT") THEN ParseInt(env["PORT"].val).value
                           ELSE DefaultPort
          /\ listen.debug = (Lower(IF Given("FLASK_DEBUG") THEN env["FLASK_DEBUG"].val
                                   ELSE DefaultFlaskDebug) = <<"t", "r", "u", "e">>)
    /\ (\A n \in EnvNames : ~Given(n)) => phase # "crashed"

====
